---- MODULE Spec2Model ----
(***************************************************************************)
(* The segmented commit log of SStoyanov22/proglog: a Log over segments,   *)
(* each a store file (length-prefixed records behind a buffered writer)    *)
(* and a memory-mapped index file of 12-byte entries.                      *)
(*                                                                         *)
(* The disk is modelled as a directory of file pairs keyed by base offset, *)
(* the Log object as a heap of segment objects, the list l.segments of     *)
(* heap references and the l.activeSegment reference.                      *)
(***************************************************************************)
EXTENDS Integers, Sequences, FiniteSets, TLC

\* ---------------------------------------------------------------- bounds
\* Calls of Append, Truncate, Reset and Close in a behaviour.
MaxCalls == 4
\* Store writes that fail in a behaviour.
MaxFaults == 1
\* Read and Truncate take their argument from 0..MaxArg.
MaxArg == 2

\* ------------------------------------------------------ program constants
offWidth == 4
posWidth == 8
entWidth == offWidth + posWidth
lenWidth == 8
DefaultMaxBytes == 1024

\* ------------------------------------------------- inputs of the model
\* Segment caps and initial offsets a caller may configure (0: unspecified).
StoreCaps == {0, 9, 20}
IndexCaps == {13, 24}
InitialOffsets == {0, 2}
\* The 11 bytes of "hello world".
HelloWorld == <<104, 101, 108, 108, 111, 32, 119, 111, 114, 108, 100>>
\* Record values (byte strings) a caller may append.
Values == {<<1>>, <<2, 2, 2>>, HelloWorld}
\* The config of the rollover scenario: a store cap of 32 bytes and an index
\* cap of three entries.
ScenarioB ==
    [MaxStoreBytes |-> 32, MaxIndexBytes |-> entWidth * 3, InitialOffset |-> 0]
\* The caller of the scenario appends "hello world", the other callers the
\* short values.
ValuesOf(c) == IF c = ScenarioB THEN {HelloWorld} ELSE Values \ {HelloWorld}

VARIABLES
    Config,         \* l.Config, after NewLog's defaults
    disk,           \* [exists, files]: the log directory l.Dir
    heap,           \* the segment objects of the current Log object
    segments,       \* l.segments: references into heap
    activeSegment,  \* l.activeSegment: a reference into heap
    status,         \* "open" | "closed" | "crashed" (the process died)
    ret,            \* what the last call returned
    acked,          \* history: the appends that returned a nil error
    epoch,          \* history: number of Truncate and Reset calls so far
    gen,            \* history: number of NewLog calls after the first
    nResets,        \* history: number of Reset calls so far
    cleanClose,     \* history: every Close so far returned nil
    nCalls, nFaults,
    mu,             \* l.mu: [writer, readers], the callers holding the lock
    pc              \* where each concurrent caller is inside its call

vars == <<Config, disk, heap, segments, activeSegment, status, ret, acked,
          epoch, gen, nResets, cleanClose, nCalls, nFaults, mu, pc>>

\* ---------------------------------------------------------------- helpers
Min(a, b) == IF a < b THEN a ELSE b

Max(a, b) == IF a > b THEN a ELSE b

ZeroEntry == [off |-> 0, pos |-> 0]

\* proto.Marshal of a record: bytes that carry its value and offset; the
\* store sees them as Len(value) opaque bytes.
Marshal(record) == [value |-> record.value, offset |-> record.offset]

Unmarshal(bytes) == [value |-> bytes.value, offset |-> bytes.offset]

ByteLen(bytes) == Len(bytes.value)

\* Size in bytes of a store file holding these records.
RECURSIVE FileBytes(_)
FileBytes(recs) ==
    IF recs = <<>> THEN 0
    ELSE lenWidth + ByteLen(Head(recs)) + FileBytes(Tail(recs))

\* ------------------------------------------------------------------ store
\* newStore: size is the file's current size; the writer's buffer is empty.
newStore(fileRecs) ==
    [size |-> FileBytes(fileRecs), buf |-> <<>>, err |-> FALSE, closed |-> FALSE]

\* store.Append: the position is the size before the write; a failed write
\* leaves size alone and the buffered writer keeps its error.
StoreAppend(st, p, fault) ==
    IF st.err \/ fault
    THEN [store |-> [st EXCEPT !.err = TRUE], n |-> 0, pos |-> 0, err |-> "io"]
    ELSE [store |-> [st EXCEPT !.buf = Append(@, p),
                               !.size = @ + lenWidth + ByteLen(p)],
          n |-> lenWidth + ByteLen(p), pos |-> st.size, err |-> "nil"]

\* The record that starts at byte position pos of the file, if any.
RECURSIVE RecordAt(_, _)
RecordAt(recs, pos) ==
    IF recs = <<>> \/ pos < 0 THEN [err |-> "EOF"]
    ELSE IF pos = 0 THEN [err |-> "nil", bytes |-> Head(recs)]
    ELSE RecordAt(Tail(recs), pos - (lenWidth + ByteLen(Head(recs))))

\* store.Read: flush, then read the length prefix at pos and the bytes.
StoreRead(st, fileRecs, pos) ==
    IF st.err \/ st.closed THEN [err |-> "io"]
    ELSE RecordAt(fileRecs \o st.buf, pos)

\* ------------------------------------------------------------------ index
\* The entry in slot k of the mapped file (zero padding where none was written).
Slot(ents, k) == IF k < Len(ents) THEN ents[k + 1] ELSE ZeroEntry

SetSlot(ents, k, e) ==
    [i \in 1..Max(Len(ents), k + 1) |->
        IF i = k + 1 THEN e ELSE IF i <= Len(ents) THEN ents[i] ELSE ZeroEntry]

\* index.Read as written: for in = -1 the last entry; for any other in the
\* entry number is taken from i.size.  uint32(size/entWidth - 1) wraps to
\* 2^32 - 1 when size < entWidth, which is past the end: EOF.
IndexReadEntry(size, in) ==
    IF in = -1 THEN (size \div entWidth) - 1 ELSE size

IndexRead(size, ents, in) ==
    IF size = 0 THEN [err |-> "EOF", off |-> 0, pos |-> 0]
    ELSE LET off == IndexReadEntry(size, in)
             pos == entWidth * off
         IN IF off < 0 \/ size < pos + entWidth
            THEN [err |-> "EOF", off |-> 0, pos |-> 0]
            ELSE [err |-> "nil", off |-> Slot(ents, off).off,
                  pos |-> Slot(ents, off).pos]

\* index.Write's guard: the mapping has room for one more entry.
IndexHasRoom(mmapLen, size) == ~(mmapLen < size + entWidth)

\* ------------------------------------------------------------------- disk
\* A segment's pair of files <base>.store and <base>.index: the flushed
\* records of the store, the index file's length in bytes and its entries.
EmptyFile == [store |-> <<>>, len |-> 0, ents |-> <<>>]

FileOf(d, base) == IF base \in DOMAIN d.files THEN d.files[base] ELSE EmptyFile

PutFile(d, base, f) ==
    [d EXCEPT !.files = [b \in DOMAIN d.files \cup {base} |->
                            IF b = base THEN f ELSE d.files[b]]]

DelFile(d, base) ==
    [d EXCEPT !.files = [b \in DOMAIN d.files \ {base} |-> d.files[b]]]

\* os.Truncate / File.Truncate of an index file to n bytes.
TruncateIndexFile(f, n) ==
    [f EXCEPT !.len = n,
              !.ents = SubSeq(@, 1, Min(Len(@), n \div entWidth))]

\* ---------------------------------------------------------------- segment
\* newIndex: size is the file's length as found, then the file is grown to
\* MaxIndexBytes and mapped.
newIndex(f) == [size |-> f.len, closed |-> FALSE]

\* newSegment's nextOffset taken as the offset of the last entry itself.
NextOffsetAtLast(baseOffset, last) ==
    IF last.err # "nil" THEN baseOffset ELSE baseOffset + last.off

\* newSegment: opens (creating if missing) both files; nextOffset is the
\* base offset when the index has no last entry, else base + last + 1.
NextOffsetOf(baseOffset, last) ==
    IF last.err # "nil" THEN baseOffset ELSE baseOffset + last.off + 1

SegNew(d, baseOffset, c) ==
    IF ~d.exists THEN [err |-> "notexist", disk |-> d]
    ELSE LET f == FileOf(d, baseOffset)
             g == TruncateIndexFile(f, c.MaxIndexBytes)
             idx == newIndex(f)
         IN [err |-> "nil",
             disk |-> PutFile(d, baseOffset, g),
             seg |-> [baseOffset |-> baseOffset,
                      nextOffset |->
                          NextOffsetOf(baseOffset, IndexRead(idx.size, g.ents, -1)),
                      store |-> newStore(f.store),
                      index |-> idx]]

\* segment.Append returning index.Write's error to its caller.
IndexWriteFailedReturned(cur) == [off |-> 0, err |-> "EOF"]

\* What segment.Append returns when index.Write fails after the store write.
IndexWriteFailed(cur) == [off |-> 0, err |-> "nil"]

\* segment.Append.  fault: the store write fails.  sigbus: the write through
\* the mapping of an index that was closed (its file truncated) faults.
SegAppend(s, d, c, value, fault, sigbus) ==
    LET cur == s.nextOffset
        r == Marshal([value |-> value, offset |-> cur])
        w == StoreAppend(s.store, r, fault)
        s1 == [s EXCEPT !.store = w.store]
    IN IF w.err # "nil"
       THEN [seg |-> s1, disk |-> d, off |-> 0, err |-> w.err,
             crashed |-> FALSE, wrote |-> FALSE]
       ELSE IF ~IndexHasRoom(c.MaxIndexBytes, s.index.size)
       THEN [seg |-> s1, disk |-> d, off |-> IndexWriteFailed(cur).off,
             err |-> IndexWriteFailed(cur).err, crashed |-> FALSE,
             wrote |-> FALSE]
       ELSE IF s.index.closed /\ sigbus
       THEN [seg |-> s1, disk |-> d, off |-> 0, err |-> "nil",
             crashed |-> TRUE, wrote |-> FALSE]
       ELSE LET e == [off |-> cur - s.baseOffset, pos |-> w.pos]
                k == s.index.size \div entWidth
                f == FileOf(d, s.baseOffset)
                d1 == IF ~s.index.closed /\ s.baseOffset \in DOMAIN d.files
                      THEN PutFile(d, s.baseOffset,
                                   [f EXCEPT !.ents = SetSlot(@, k, e)])
                      ELSE d
            IN [seg |-> [s1 EXCEPT !.index.size = @ + entWidth,
                                   !.nextOffset = @ + 1],
                disk |-> d1, off |-> cur, err |-> "nil", crashed |-> FALSE,
                wrote |-> TRUE]

\* segment.Read: the index entry of the relative offset, then the store,
\* whose Read flushes the buffered writer to the file first.
SegRead(s, d, off) ==
    LET f == FileOf(d, s.baseOffset)
        e == IndexRead(s.index.size, f.ents, off - s.baseOffset)
    IN IF e.err # "nil" THEN [err |-> e.err, seg |-> s, disk |-> d]
       ELSE LET b == StoreRead(s.store, f.store, e.pos)
                s1 == [s EXCEPT !.store.buf = <<>>]
                d1 == IF s.baseOffset \in DOMAIN d.files
                      THEN PutFile(d, s.baseOffset,
                                   [f EXCEPT !.store = @ \o s.store.buf])
                      ELSE d
            IN IF s.store.err \/ s.store.closed
               THEN [err |-> b.err, seg |-> s, disk |-> d]
               ELSE IF b.err # "nil"
               THEN [err |-> b.err, seg |-> s1, disk |-> d1]
               ELSE [err |-> "nil", seg |-> s1, disk |-> d1,
                     record |-> Unmarshal(b.bytes)]

\* segment.IsMaxed without the test of the store's size.
IsMaxedIndexOnly(s, c) == s.index.size >= c.MaxIndexBytes

IsMaxed(s, c) ==
    \/ s.store.size >= c.MaxStoreBytes
    \/ s.index.size >= c.MaxIndexBytes

\* index.Close without the cut of the file to the logical size.
IndexCloseNoTruncate(f, size) == f

\* index.Close: the mapping and the file are synced and the file is cut from
\* the preallocated length down to the logical size.
IndexClose(f, size) == TruncateIndexFile(f, size)

\* store.Close then index.Close; the first error ends it.
SegClose(s, d) ==
    IF s.store.err THEN [err |-> "io", seg |-> s, disk |-> d]
    ELSE IF s.store.closed THEN [err |-> "closed", seg |-> s, disk |-> d]
    ELSE LET f == FileOf(d, s.baseOffset)
             here == s.baseOffset \in DOMAIN d.files
             s1 == [s EXCEPT !.store.buf = <<>>, !.store.closed = TRUE]
             f1 == [f EXCEPT !.store = @ \o s.store.buf]
         IN IF s.index.closed
            THEN [err |-> "closed", seg |-> s1,
                  disk |-> IF here THEN PutFile(d, s.baseOffset, f1) ELSE d]
            ELSE [err |-> "nil",
                  seg |-> [s1 EXCEPT !.index.closed = TRUE],
                  disk |-> IF here
                           THEN PutFile(d, s.baseOffset,
                                        IndexClose(f1, s.index.size))
                           ELSE d]

\* segment.Remove: Close, then delete the index file and the store file.
SegRemove(s, d) ==
    LET cl == SegClose(s, d)
    IN IF cl.err # "nil" THEN cl
       ELSE IF s.baseOffset \notin DOMAIN cl.disk.files
       THEN [cl EXCEPT !.err = "notexist"]
       ELSE [cl EXCEPT !.disk = DelFile(@, s.baseOffset)]

\* -------------------------------------------------------------------- log
\* The state a Log method works on.
LogState == [heap |-> heap, segments |-> segments,
             activeSegment |-> activeSegment, disk |-> disk]

\* Log.newSegment: the new segment is appended to l.segments and made active.
LogNewSegment(L, off, c) ==
    LET r == SegNew(L.disk, off, c)
    IN IF r.err # "nil" THEN [err |-> r.err, log |-> L]
       ELSE LET h == Append(L.heap, r.seg)
            IN [err |-> "nil",
                log |-> [heap |-> h, segments |-> Append(L.segments, Len(h)),
                         activeSegment |-> Len(h), disk |-> r.disk]]

RECURSIVE SortedSeq(_)
SortedSeq(S) ==
    IF S = {} THEN <<>>
    ELSE LET m == CHOOSE x \in S : \A y \in S : x <= y
         IN <<m>> \o SortedSeq(S \ {m})

\* The base offsets parsed from the directory listing, sorted: every base
\* offset is there twice, once per file of the pair.
BaseOffsets(d) ==
    LET b == SortedSeq(DOMAIN d.files)
    IN [i \in 1..(2 * Len(b)) |-> b[(i + 1) \div 2]]

\* setup's loop: a segment per base offset, skipping the duplicate (i counts
\* from 1 here, from 0 in the source).
RECURSIVE SetupLoop(_, _, _, _)
SetupLoop(L, baseOffsets, i, c) ==
    IF i > Len(baseOffsets) THEN [err |-> "nil", log |-> L]
    ELSE LET r == LogNewSegment(L, baseOffsets[i], c)
         IN IF r.err # "nil" THEN r
            ELSE SetupLoop(r.log, baseOffsets, i + 2, c)

setup(L, c) ==
    IF ~L.disk.exists THEN [err |-> "notexist", log |-> L]
    ELSE LET r == SetupLoop(L, BaseOffsets(L.disk), 1, c)
         IN IF r.err # "nil" THEN r
            ELSE IF r.log.segments = <<>>
            THEN LogNewSegment(r.log, c.InitialOffset, c)
            ELSE r

\* NewLog's defaults for the caps the caller left at 0.
WithDefaults(c) ==
    [MaxStoreBytes |-> IF c.MaxStoreBytes = 0 THEN DefaultMaxBytes
                       ELSE c.MaxStoreBytes,
     MaxIndexBytes |-> IF c.MaxIndexBytes = 0 THEN DefaultMaxBytes
                       ELSE c.MaxIndexBytes,
     InitialOffset |-> c.InitialOffset]

NewLog(d, c) ==
    setup([heap |-> <<>>, segments |-> <<>>, activeSegment |-> 0, disk |-> d],
          WithDefaults(c))

\* What Log.Append returns when the segment's Append returned the error e.
AppendFailed(e) == [off |-> 0, err |-> "nil"]

\* Log.Append.
LogAppend(L, c, value, fault, sigbus) ==
    LET a == SegAppend(L.heap[L.activeSegment], L.disk, c, value, fault, sigbus)
        L1 == [L EXCEPT !.heap[L.activeSegment] = a.seg, !.disk = a.disk]
    IN IF a.crashed
       THEN [log |-> L1, off |-> 0, err |-> "nil", inner |-> "nil",
             crashed |-> TRUE, wrote |-> FALSE]
       ELSE IF a.err # "nil"
       THEN [log |-> L1, off |-> AppendFailed(a.err).off,
             err |-> AppendFailed(a.err).err, inner |-> a.err,
             crashed |-> FALSE, wrote |-> FALSE]
       ELSE IF IsMaxed(a.seg, c)
       THEN LET n == LogNewSegment(L1, a.off + 1, c)
            IN [log |-> n.log, off |-> a.off, err |-> n.err, inner |-> "nil",
                crashed |-> FALSE, wrote |-> a.wrote]
       ELSE [log |-> L1, off |-> a.off, err |-> "nil", inner |-> "nil",
             crashed |-> FALSE, wrote |-> a.wrote]

\* Log.Read's search: the first segment of the list that holds off (0: none).
Holds(s, off) == s.baseOffset <= off /\ off < s.nextOffset

FindSegment(L, off) ==
    LET hits == {i \in 1..Len(L.segments) : Holds(L.heap[L.segments[i]], off)}
    IN IF hits = {} THEN 0
       ELSE L.segments[CHOOSE i \in hits : \A j \in hits : i <= j]

\* Log.Read.
LogRead(L, off) ==
    LET sid == FindSegment(L, off)
    IN IF sid = 0 \/ L.heap[sid].nextOffset <= off
       THEN [err |-> "outofrange", log |-> L]
       ELSE LET r == SegRead(L.heap[sid], L.disk, off)
                L1 == [L EXCEPT !.heap[sid] = r.seg, !.disk = r.disk]
            IN IF r.err # "nil" THEN [err |-> r.err, log |-> L1]
               ELSE [err |-> "nil", log |-> L1, record |-> r.record]

\* Log.Close's loop from the i-th segment on: the first error ends it.
RECURSIVE CloseFrom(_, _)
CloseFrom(L, i) ==
    IF i > Len(L.segments) THEN [err |-> "nil", log |-> L]
    ELSE LET sid == L.segments[i]
             r == SegClose(L.heap[sid], L.disk)
             L1 == [L EXCEPT !.heap[sid] = r.seg, !.disk = r.disk]
         IN IF r.err # "nil" THEN [err |-> r.err, log |-> L1]
            ELSE CloseFrom(L1, i + 1)

LogClose(L) == CloseFrom(L, 1)

\* Log.Remove: Close, then os.RemoveAll of the directory.
LogRemove(L) ==
    LET r == LogClose(L)
    IN IF r.err # "nil" THEN r
       ELSE [err |-> "nil",
             log |-> [r.log EXCEPT !.disk = [exists |-> FALSE, files |-> <<>>]]]

\* What Log.Reset returns when Remove returned the error e.
ResetFailed(e) == "nil"

\* Log.Reset.
LogReset(L, c) ==
    LET r == LogRemove(L)
    IN IF r.err # "nil" THEN [err |-> ResetFailed(r.err), log |-> r.log]
       ELSE setup(r.log, c)

\* Log.Truncate's test of a segment, comparing with lowest instead of lowest + 1.
RemovableOffByOne(s, lowest) == s.nextOffset <= lowest

\* Log.Truncate's test of a segment.
Removable(s, lowest) == s.nextOffset <= lowest + 1

\* Log.Truncate's loop from the i-th segment on; kept is the local slice of
\* the segments retained so far.
RECURSIVE TruncateFrom(_, _, _, _)
TruncateFrom(L, lowest, i, kept) ==
    IF i > Len(L.segments) THEN [err |-> "nil", log |-> [L EXCEPT !.segments = kept]]
    ELSE LET sid == L.segments[i]
         IN IF Removable(L.heap[sid], lowest)
            THEN LET r == SegRemove(L.heap[sid], L.disk)
                     L1 == [L EXCEPT !.heap[sid] = r.seg, !.disk = r.disk]
                 IN IF r.err # "nil" THEN [err |-> r.err, log |-> L1]
                    ELSE TruncateFrom(L1, lowest, i + 1, kept)
            ELSE TruncateFrom(L, lowest, i + 1, Append(kept, sid))

LogTruncate(L, lowest) == TruncateFrom(L, lowest, 1, <<>>)

\* Log.LowestOffset and Log.HighestOffset: indexing an empty list panics.
LogLowestOffset(L) ==
    IF L.segments = <<>> THEN [err |-> "panic", off |-> 0]
    ELSE [err |-> "nil", off |-> L.heap[L.segments[1]].baseOffset]

LogHighestOffset(L) ==
    IF L.segments = <<>> THEN [err |-> "panic", off |-> 0]
    ELSE LET off == L.heap[L.segments[Len(L.segments)]].nextOffset
         IN [err |-> "nil", off |-> IF off = 0 THEN 0 ELSE off - 1]

\* store.ReadAt from position 0 to the end of the file, as the originReader
\* of a segment drives it: the buffered writer is flushed, then the file is
\* read.  The bytes are the file's records, each a length prefix and a payload.
StoreReadAll(s, d) ==
    IF s.store.err THEN [err |-> "io", seg |-> s, disk |-> d, bytes |-> <<>>]
    ELSE IF s.store.closed
    THEN [err |-> "closed", seg |-> s, disk |-> d, bytes |-> <<>>]
    ELSE LET f == FileOf(d, s.baseOffset)
             all == f.store \o s.store.buf
         IN [err |-> "nil",
             seg |-> [s EXCEPT !.store.buf = <<>>],
             disk |-> IF s.baseOffset \in DOMAIN d.files
                      THEN PutFile(d, s.baseOffset, [f EXCEPT !.store = all])
                      ELSE d,
             bytes |-> all]

\* Log.Reader and the consumption of the io.MultiReader it returns: the
\* stores of the listed segments, in order, from the i-th on; the first
\* error ends the stream.
RECURSIVE ReaderFrom(_, _, _)
ReaderFrom(L, i, stream) ==
    IF i > Len(L.segments) THEN [err |-> "nil", log |-> L, stream |-> stream]
    ELSE LET sid == L.segments[i]
             r == StoreReadAll(L.heap[sid], L.disk)
             L1 == [L EXCEPT !.heap[sid] = r.seg, !.disk = r.disk]
         IN IF r.err # "nil"
            THEN [err |-> r.err, log |-> L1, stream |-> stream]
            ELSE ReaderFrom(L1, i + 1, stream \o r.bytes)

LogReader(L) == ReaderFrom(L, 1, <<>>)

\* ---------------------------------------------------------------- actions
NoRecord == [value |-> <<>>, offset |-> 0]

\* What a call returned: the operation, its argument, the offset and error
\* returned, the error of the segment-level call behind it, the record read.
Ret(op, arg, off, err, inner, record) ==
    [op |-> op, arg |-> arg, off |-> off, err |-> err, inner |-> inner,
     record |-> record]

\* The goroutines sharing one Log, and l.mu with no holder.
Callers == {"g1", "g2"}
Unlocked == [writer |-> "none", readers |-> {}]

Install(L) ==
    /\ heap' = L.heap
    /\ segments' = L.segments
    /\ activeSegment' = L.activeSegment
    /\ disk' = L.disk

\* The configs a log is created with: every combination of the caps at
\* initial offset 0, the configured store caps at the other initial offsets,
\* and the scenario's.
Configs ==
    {c \in [MaxStoreBytes : StoreCaps, MaxIndexBytes : IndexCaps,
            InitialOffset : InitialOffsets] :
        c.InitialOffset # 0 => c.MaxStoreBytes # 0} \cup {ScenarioB}

Init ==
    \E c \in Configs :
        LET r == NewLog([exists |-> TRUE, files |-> <<>>], c)
        IN /\ Config = WithDefaults(c)
           /\ heap = r.log.heap
           /\ segments = r.log.segments
           /\ activeSegment = r.log.activeSegment
           /\ disk = r.log.disk
           /\ status = "open"
           /\ ret = Ret("NewLog", 0, 0, r.err, "nil", NoRecord)
           /\ acked = <<>>
           /\ epoch = 0
           /\ gen = 0
           /\ nResets = 0
           /\ cleanClose = TRUE
           /\ nCalls = 0
           /\ nFaults = 0
           /\ mu = Unlocked
           /\ pc = [t \in Callers |-> "idle"]

DoAppend(value, fault, sigbus) ==
    /\ status = "open"
    /\ value \in ValuesOf(Config)
    /\ nCalls < MaxCalls
    /\ fault => nFaults < MaxFaults /\ ~heap[activeSegment].store.err
    /\ sigbus => heap[activeSegment].index.closed
    /\ LET r == LogAppend(LogState, Config, value, fault, sigbus)
       IN /\ Install(r.log)
          /\ status' = IF r.crashed THEN "crashed" ELSE "open"
          /\ ret' = Ret("Append", value, r.off,
                        IF r.crashed THEN "sigbus" ELSE r.err, r.inner, NoRecord)
          /\ acked' = IF ~r.crashed /\ r.err = "nil"
                      THEN Append(acked, [off |-> r.off, value |-> value,
                                          epoch |-> epoch, gen |-> gen,
                                          wrote |-> r.wrote])
                      ELSE acked
    /\ nCalls' = nCalls + 1
    /\ nFaults' = IF fault THEN nFaults + 1 ELSE nFaults
    /\ UNCHANGED <<mu, pc, Config, epoch, gen, nResets, cleanClose>>

DoRead(off) ==
    /\ status = "open"
    /\ LET r == LogRead(LogState, off)
       IN /\ Install(r.log)
          /\ ret' = Ret("Read", off, 0, r.err, "nil",
                        IF r.err = "nil" THEN r.record ELSE NoRecord)
    /\ UNCHANGED <<mu, pc, Config, status, acked, epoch, gen, nResets, cleanClose,
                   nCalls, nFaults>>

\* Log.Reader, its stream read to the end.
DoReader ==
    /\ status = "open"
    /\ LET r == LogReader(LogState)
       IN /\ Install(r.log)
          /\ ret' = [op |-> "Reader", arg |-> 0, off |-> 0, err |-> r.err,
                     inner |-> "nil", record |-> NoRecord, stream |-> r.stream]
    /\ UNCHANGED <<mu, pc, Config, status, acked, epoch, gen, nResets, cleanClose,
                   nCalls, nFaults>>

DoLowestOffset ==
    /\ status = "open"
    /\ LET r == LogLowestOffset(LogState)
       IN /\ ret' = Ret("LowestOffset", 0, r.off, r.err, "nil", NoRecord)
          /\ status' = IF r.err = "panic" THEN "crashed" ELSE "open"
    /\ UNCHANGED <<mu, pc, Config, disk, heap, segments, activeSegment, acked, epoch,
                   gen, nResets, cleanClose, nCalls, nFaults>>

DoHighestOffset ==
    /\ status = "open"
    /\ LET r == LogHighestOffset(LogState)
       IN /\ ret' = Ret("HighestOffset", 0, r.off, r.err, "nil", NoRecord)
          /\ status' = IF r.err = "panic" THEN "crashed" ELSE "open"
    /\ UNCHANGED <<mu, pc, Config, disk, heap, segments, activeSegment, acked, epoch,
                   gen, nResets, cleanClose, nCalls, nFaults>>

DoTruncate(lowest) ==
    /\ status = "open"
    /\ nCalls < MaxCalls
    /\ LET r == LogTruncate(LogState, lowest)
       IN /\ Install(r.log)
          /\ ret' = Ret("Truncate", lowest, 0, r.err, "nil", NoRecord)
    /\ epoch' = epoch + 1
    /\ nCalls' = nCalls + 1
    /\ UNCHANGED <<mu, pc, Config, status, acked, gen, nResets, cleanClose, nFaults>>

DoClose ==
    /\ status = "open"
    /\ nCalls < MaxCalls
    /\ LET r == LogClose(LogState)
       IN /\ Install(r.log)
          /\ ret' = Ret("Close", 0, 0, r.err, "nil", NoRecord)
          /\ cleanClose' = (cleanClose /\ r.err = "nil")
    /\ status' = "closed"
    /\ nCalls' = nCalls + 1
    /\ UNCHANGED <<mu, pc, Config, acked, epoch, gen, nResets, nFaults>>

\* NewLog on the same directory with the same config, after Close.
DoReopen ==
    /\ status = "closed"
    /\ disk.exists
    /\ LET r == NewLog(disk, Config)
       IN /\ Install(r.log)
          /\ ret' = Ret("NewLog", 0, 0, r.err, "nil", NoRecord)
    /\ status' = "open"
    /\ gen' = gen + 1
    /\ UNCHANGED <<mu, pc, Config, acked, epoch, nResets, cleanClose, nCalls, nFaults>>

DoReset ==
    /\ status = "open"
    /\ nCalls < MaxCalls
    /\ LET r == LogReset(LogState, Config)
       IN /\ Install(r.log)
          /\ ret' = Ret("Reset", 0, 0, r.err, "nil", NoRecord)
    /\ epoch' = epoch + 1
    /\ nResets' = nResets + 1
    /\ nCalls' = nCalls + 1
    /\ UNCHANGED <<mu, pc, Config, status, acked, gen, cleanClose, nFaults>>

Next ==
    \/ \E v \in Values, fault \in BOOLEAN, sigbus \in BOOLEAN :
           DoAppend(v, fault, sigbus)
    \/ \E off \in 0..MaxArg : DoRead(off)
    \/ DoReader
    \/ DoLowestOffset
    \/ DoHighestOffset
    \/ \E lowest \in 0..MaxArg : DoTruncate(lowest)
    \/ DoClose
    \/ DoReopen
    \/ DoReset

Spec == Init /\ [][Next]_vars

\* ----------------------------------------------------------------- claims
\* The appends, acknowledged with a nil error, that wrote their record to a
\* segment and have had no Truncate or Reset after them.
Standing == {i \in DOMAIN acked : acked[i].wrote /\ acked[i].epoch = epoch}

\* C1: a Read of an offset that a successful Append returned, with no
\* Truncate or Reset since, returns that Append's record with no error.
C1_ReadReturnsAppended ==
    \A i \in Standing :
        (ret.op = "Read" /\ ret.arg = acked[i].off)
            => /\ ret.err = "nil"
               /\ ret.record = [value |-> acked[i].value, offset |-> acked[i].off]

\* C2: with no Reset and no failing store write, the i-th successful Append
\* (i = 0, 1, ...) returns InitialOffset + i.
C2_OffsetsDense ==
    (nResets = 0 /\ nFaults = 0)
        => \A i \in DOMAIN acked : acked[i].off = Config.InitialOffset + (i - 1)

\* C5: after exactly k >= 1 Appends on a fresh log and nothing else but
\* queries, HighestOffset returns InitialOffset + k - 1 and LowestOffset
\* returns InitialOffset.
OnlyAppends == nCalls = Len(acked) /\ nFaults = 0 /\ nCalls >= 1

C5_HighestAfterAppends ==
    /\ (OnlyAppends /\ ret.op = "HighestOffset")
           => ret.err = "nil" /\ ret.off = Config.InitialOffset + nCalls - 1
    /\ (OnlyAppends /\ ret.op = "LowestOffset")
           => ret.err = "nil" /\ ret.off = Config.InitialOffset

\* C8: on a log that was set up and then only appended to, read, truncated
\* and queried, the segment list is never empty.
C8_SegmentsNonEmpty ==
    (gen = 0 /\ nResets = 0 /\ status = "open") => segments # <<>>

\* C9: adjacent segments of the list are contiguous: each segment's next
\* offset is the base offset of the segment after it.
C9_Contiguous ==
    (nResets = 0 /\ nFaults = 0)
        => \A i \in 1..(Len(segments) - 1) :
               heap[segments[i]].nextOffset = heap[segments[i + 1]].baseOffset

\* C10: when the active segment's Append returned an error, Log.Append
\* returns that error.
C10_AppendErrorPropagates ==
    (ret.op = "Append" /\ ret.inner # "nil") => ret.err = ret.inner

\* C3: after a clean Close and a NewLog on the same directory with the same
\* config, a Read of an offset appended before the Close returns the record
\* that was appended.
C3_ReadAfterReopen ==
    \A i \in Standing :
        (/\ ret.op = "Read" /\ ret.arg = acked[i].off
         /\ acked[i].gen < gen /\ cleanClose /\ nFaults = 0 /\ nResets = 0)
            => /\ ret.err = "nil"
               /\ ret.record = [value |-> acked[i].value, offset |-> acked[i].off]

\* The <<baseOffset, nextOffset>> pairs of the segment list, in order.
Ranges(L) ==
    [i \in 1..Len(L.segments) |->
        <<L.heap[L.segments[i]].baseOffset, L.heap[L.segments[i]].nextOffset>>]

\* C4: a NewLog that follows a clean Close of a log that was appended to
\* (and never truncated or reset, no store write having failed) rebuilds the same segment base and next offsets, so LowestOffset and
\* HighestOffset are what they were, and the next Append returns the
\* previous highest offset + 1.
C4_RestartKeepsOffsets ==
    [][/\ (/\ status = "closed" /\ status' = "open"
           /\ cleanClose /\ nFaults = 0 /\ epoch = 0 /\ acked # <<>>)
              => /\ Ranges(LogState') = Ranges(LogState)
                 /\ LogLowestOffset(LogState') = LogLowestOffset(LogState)
                 /\ LogHighestOffset(LogState') = LogHighestOffset(LogState)
       /\ (/\ ret.op = "NewLog" /\ ret'.op = "Append" /\ gen > 0
           /\ cleanClose /\ nFaults' = 0 /\ epoch = 0 /\ acked # <<>>)
              => /\ ret'.err = "nil"
                 /\ ret'.off = LogHighestOffset(LogState).off + 1]_vars

\* C6: a Read of an offset that no segment of the list holds fails with the
\* out-of-range error and changes nothing; so does every Read of an offset
\* above HighestOffset or below LowestOffset.
C6_ReadOutOfRange ==
    [][\A off \in 0..MaxArg :
          DoRead(off) =>
              /\ FindSegment(LogState, off) = 0
                     => /\ ret'.err = "outofrange"
                        /\ UNCHANGED <<heap, segments, activeSegment, disk>>
              /\ (/\ LogHighestOffset(LogState).err = "nil"
                  /\ off > LogHighestOffset(LogState).off)
                     => ret'.err = "outofrange"
              /\ (/\ LogLowestOffset(LogState).err = "nil"
                  /\ off < LogLowestOffset(LogState).off)
                     => ret'.err = "outofrange"]_vars

\* The first clause of C6 alone: no segment holds the offset.
ReadOfUnheldOffsetFails ==
    [][\A off \in 0..MaxArg :
          (DoRead(off) /\ FindSegment(LogState, off) = 0)
              => /\ ret'.err = "outofrange"
                 /\ UNCHANGED <<heap, segments, activeSegment, disk>>]_vars

\* C7: a Truncate(lowest) that returns nil leaves in the list exactly the
\* segments whose next offset is above lowest + 1, in their order; every
\* other segment is closed and its files are deleted; LowestOffset is then
\* the base offset of the first survivor.
Survivors(lowest) ==
    SelectSeq(segments, LAMBDA sid : heap[sid].nextOffset > lowest + 1)

C11_IndexFullRollsOver ==
    [][\A v \in Values, sigbus \in BOOLEAN :
          (/\ DoAppend(v, FALSE, sigbus)
           /\ ~heap[activeSegment].store.err
           /\ ~IndexHasRoom(Config.MaxIndexBytes, heap[activeSegment].index.size))
              => /\ ret'.err # "nil"
                 /\ activeSegment' # activeSegment
                 /\ segments' = Append(segments, activeSegment')]_vars

\* C12: after a Reset the list holds exactly one segment, which is the
\* active segment, is open and empty, and has base offset and next offset
\* equal to InitialOffset; an Append then would return InitialOffset.
C12_ResetGivesFreshLog ==
    ret.op = "Reset"
        => /\ ret.err = "nil"
           /\ Len(segments) = 1
           /\ activeSegment = segments[1]
           /\ heap[activeSegment].baseOffset = Config.InitialOffset
           /\ heap[activeSegment].nextOffset = Config.InitialOffset
           /\ heap[activeSegment].store.size = 0
           /\ heap[activeSegment].index.size = 0
           /\ ~heap[activeSegment].store.closed
           /\ ~heap[activeSegment].index.closed
           /\ \A v \in Values :
                  LogAppend(LogState, Config, v, FALSE, FALSE).off
                      = Config.InitialOffset

\* The result of an index.Read that returns entry n of the entries ents.
EntryRead(ents, n) ==
    [err |-> "nil", off |-> Slot(ents, n).off, pos |-> Slot(ents, n).pos]

\* C13: for every open index of the list holding k entries, index.Read(n)
\* returns the n-th entry written for every 0 <= n < k, and index.Read(-1)
\* returns the last entry written.
C13_IndexPointLookup ==
    \A i \in DOMAIN segments :
        LET s == heap[segments[i]]
            f == FileOf(disk, s.baseOffset)
            k == s.index.size \div entWidth
        IN (~s.index.closed /\ s.baseOffset \in DOMAIN disk.files)
               => /\ \A n \in 0..(k - 1) :
                         IndexRead(s.index.size, f.ents, n) = EntryRead(f.ents, n)
                  /\ k > 0 => IndexRead(s.index.size, f.ents, -1)
                                  = EntryRead(f.ents, k - 1)

\* The part of C13 about index.Read(-1) alone.
LastEntryLookup ==
    \A i \in DOMAIN segments :
        LET s == heap[segments[i]]
            f == FileOf(disk, s.baseOffset)
            k == s.index.size \div entWidth
        IN (~s.index.closed /\ s.baseOffset \in DOMAIN disk.files /\ k > 0)
               => IndexRead(s.index.size, f.ents, -1) = EntryRead(f.ents, k - 1)

\* The segments of the list whose base offset is s's.
SameBase(L, s) ==
    {i \in DOMAIN L.segments : L.heap[L.segments[i]].baseOffset = s.baseOffset}

\* C14: when every Close so far returned nil, a Close has left every index
\* file cut to its logical size; a NewLog on the same directory with the same config gives every
\* index the size it had before the Close, its file is grown to
\* MaxIndexBytes again, and index.Read(-1) returns the last entry written
\* before the Close (io.EOF for an index with no entry).
C14_IndexRoundTrip ==
    [][(/\ status = "closed" /\ status' = "open"
        /\ cleanClose /\ ret'.err = "nil")
          => \A i \in DOMAIN segments :
                 LET s == heap[segments[i]]
                     f == FileOf(disk, s.baseOffset)
                     k == s.index.size \div entWidth
                 IN Cardinality(SameBase(LogState, s)) = 1
                      => /\ f.len = s.index.size
                         /\ \E j \in DOMAIN segments' :
                              LET t == heap'[segments'[j]]
                                  g == FileOf(disk', t.baseOffset)
                              IN /\ t.baseOffset = s.baseOffset
                                 /\ t.index.size = s.index.size
                                 /\ t.index.size = entWidth * k
                                 /\ ~t.index.closed
                                 /\ g.len = Config.MaxIndexBytes
                                 /\ IndexRead(t.index.size, g.ents, -1)
                                      = IF k = 0
                                        THEN [err |-> "EOF", off |-> 0, pos |-> 0]
                                        ELSE EntryRead(f.ents, k - 1)]_vars

\* A NewLog after clean Closes rebuilt an index that holds entries, on a
\* file grown again to MaxIndexBytes.
C14_Witness ==
    /\ ret.op = "NewLog" /\ ret.err = "nil" /\ gen > 0 /\ cleanClose
    /\ \E i \in DOMAIN segments :
           LET s == heap[segments[i]]
               f == FileOf(disk, s.baseOffset)
           IN /\ s.index.size >= entWidth
              /\ f.len = Config.MaxIndexBytes
              /\ IndexRead(s.index.size, f.ents, -1).err = "nil"

\* C15: on a log that was only appended to, truncated and queried, once an
\* Append has written a record LowestOffset and HighestOffset both return a
\* value and the lowest offset is at most the highest.
C15_LowestBelowHighest ==
    (/\ status = "open" /\ gen = 0 /\ nResets = 0 /\ nFaults = 0
     /\ \E i \in DOMAIN acked : acked[i].wrote)
        => /\ LogLowestOffset(LogState).err = "nil"
           /\ LogHighestOffset(LogState).err = "nil"
           /\ LogLowestOffset(LogState).off <= LogHighestOffset(LogState).off

\* The payloads of a byte stream decoded as length-prefixed records.
Payloads(stream) == [i \in DOMAIN stream |-> Unmarshal(stream[i]).value]

\* The contents of the listed segments' stores, written behind or still in
\* the buffer, in segment order from the i-th segment on.
RECURSIVE StoreContents(_, _)
StoreContents(L, i) ==
    IF i > Len(L.segments) THEN <<>>
    ELSE LET s == L.heap[L.segments[i]]
         IN (FileOf(L.disk, s.baseOffset).store \o s.store.buf)
                \o StoreContents(L, i + 1)

\* C16: the stream of Log.Reader, read to its end, is the concatenation of
\* the segments' store contents in segment order; on a log with no Truncate,
\* no Reset and no failed store write its payloads are those of the appended
\* records in append order; reading it changes no store size, index size,
\* base or next offset, nor the list.
C16_ReaderStreamsAllRecords ==
    [][DoReader =>
          /\ ret'.err = "nil" => ret'.stream = StoreContents(LogState, 1)
          /\ (epoch = 0 /\ nFaults = 0)
                 => /\ ret'.err = "nil"
                    /\ Payloads(ret'.stream)
                           = [i \in DOMAIN acked |-> acked[i].value]
          /\ segments' = segments /\ activeSegment' = activeSegment
          /\ DOMAIN heap' = DOMAIN heap
          /\ \A sid \in DOMAIN heap :
                 /\ heap'[sid].store.size = heap[sid].store.size
                 /\ heap'[sid].index = heap[sid].index
                 /\ heap'[sid].baseOffset = heap[sid].baseOffset
                 /\ heap'[sid].nextOffset = heap[sid].nextOffset]_vars

\* The base offsets of the segment list, in order.
Bases == [i \in DOMAIN segments |-> heap[segments[i]].baseOffset]

\* The log of the scenario after exactly k Appends of "hello world" and
\* nothing else but queries.
ScenarioAfter(k) ==
    /\ Config = ScenarioB /\ status = "open"
    /\ nCalls = k /\ Len(acked) = k /\ nFaults = 0

\* C17: in the scenario (store cap 32, index cap 36, initial offset 0,
\* records of 8 + 11 bytes) the Appends return 0, 1, 2, 3; the second Append
\* brings the store to 38 >= 32 bytes and rolls over, and so does the
\* fourth: the base offsets are 0 after one Append, 0 and 2 after two and
\* three, and 0, 2 and 4 after four, when HighestOffset is 3 and
\* LowestOffset is 0.
C17_ScenarioB ==
    \A k \in 1..4 :
        ScenarioAfter(k)
            => /\ \A i \in 1..k : acked[i].off = i - 1 /\ acked[i].wrote
               /\ Bases = CASE k = 1 -> <<0>>
                            [] k = 2 -> <<0, 2>>
                            [] k = 3 -> <<0, 2>>
                            [] k = 4 -> <<0, 2, 4>>
               /\ activeSegment = segments[Len(segments)]
               /\ k = 4 => /\ LogHighestOffset(LogState) = [err |-> "nil", off |-> 3]
                           /\ LogLowestOffset(LogState) = [err |-> "nil", off |-> 0]

\* The fourth Append of the scenario has returned and HighestOffset was asked.
C17_Witness ==
    /\ ScenarioAfter(4)
    /\ ret.op = "HighestOffset" /\ ret.off = 3
    /\ Len(segments) = 3

\* The scenario as the claim states it: the first three Appends land in the
\* first segment, the fourth rolls over, and the log then has two segments
\* with base offsets 0 and 3.
C17_ScenarioAsStated ==
    /\ \A k \in 1..3 :
           ScenarioAfter(k)
               => /\ \A i \in 1..k : acked[i].off = i - 1
                  /\ Bases = <<0>>
    /\ ScenarioAfter(4)
           => /\ Bases = <<0, 3>>
              /\ LogHighestOffset(LogState) = [err |-> "nil", off |-> 3]
              /\ LogLowestOffset(LogState) = [err |-> "nil", off |-> 0]

\* C18: Log.Append holds the log's exclusive lock from its first statement
\* to its return, so the Appends of concurrent callers run one at a time, in
\* some order.  On a log with no Truncate and no Reset, every Append that
\* returns no error returns an offset that no earlier Append returned, one
\* above the offset of the Append before it, and advances the active
\* segment's next offset by one, its index by one entry and its store by the
\* record's bytes.
C18_AppendsSerialized ==
    [][\A v \in Values, fault \in BOOLEAN, sigbus \in BOOLEAN :
          (DoAppend(v, fault, sigbus) /\ ret'.err = "nil" /\ epoch = 0)
              => /\ \A i \in DOMAIN acked : acked[i].off # ret'.off
                 /\ acked # <<>> => ret'.off = acked[Len(acked)].off + 1
                 /\ heap'[activeSegment].nextOffset
                        = heap[activeSegment].nextOffset + 1
                 /\ heap'[activeSegment].index.size
                        = heap[activeSegment].index.size + entWidth
                 /\ heap'[activeSegment].store.size
                        = heap[activeSegment].store.size + lenWidth + Len(v)]_vars

\* C19: while the log is open, the active segment is in the list, is its
\* last element, has the highest base offset of the list, and is not closed.
C19_ActiveIsLast ==
    status = "open"
        => /\ segments # <<>>
           /\ activeSegment = segments[Len(segments)]
           /\ \A i \in DOMAIN segments :
                  heap[segments[i]].baseOffset <= heap[activeSegment].baseOffset
           /\ ~heap[activeSegment].store.closed
           /\ ~heap[activeSegment].index.closed

\* The number of entries of a segment's index.
Entries(s) == s.index.size \div entWidth

\* Every segment of the list has next offset = base offset + number of index
\* entries, and entry k of its open index carries the relative offset k.
CountsEntries(L) ==
    \A i \in DOMAIN L.segments :
        LET s == L.heap[L.segments[i]]
            f == FileOf(L.disk, s.baseOffset)
        IN /\ s.nextOffset = s.baseOffset + Entries(s)
           /\ (~s.index.closed /\ s.baseOffset \in DOMAIN L.disk.files)
                  => \A k \in 0..(Entries(s) - 1) : Slot(f.ents, k).off = k

C21_FailedIndexWrite ==
    [][\A v \in Values, sigbus \in BOOLEAN :
          (/\ ret'.op = "Append" /\ ret'.arg = v /\ nFaults' = nFaults
           /\ ~heap[activeSegment].store.err
           /\ ~IndexHasRoom(Config.MaxIndexBytes, heap[activeSegment].index.size)
           /\ DoAppend(v, FALSE, sigbus))
              => LET s == heap[activeSegment]
                     t == heap'[activeSegment]
                     a == SegAppend(s, disk, Config, v, FALSE, sigbus)
                     r == Marshal([value |-> v, offset |-> s.nextOffset])
                 IN /\ a.off = 0 /\ a.err = "nil"
                    /\ ret'.off = 0
                    /\ t.index = s.index
                    /\ t.nextOffset = s.nextOffset
                    /\ t.baseOffset = s.baseOffset
                    /\ t.store.size = s.store.size + lenWidth + Len(v)
                    /\ t.store.buf = Append(s.store.buf, r)
                    /\ \A b \in DOMAIN disk.files :
                           /\ b \in DOMAIN disk'.files
                           /\ disk'.files[b].ents = disk.files[b].ents
                    /\ \A off \in 0..MaxArg :
                           LET rd == LogRead(LogState', off)
                           IN rd.err = "nil" => rd.record # Unmarshal(r)]_vars

\* An Append's store write succeeded and its index write failed: the call
\* returned (0, nil) and the active segment's store holds more records than
\* its index has entries.
C21_Witness ==
    /\ ret.op = "Append" /\ ret.err = "nil" /\ ret.inner = "nil" /\ ret.off = 0
    /\ acked # <<>> /\ ~acked[Len(acked)].wrote
    /\ nFaults = 0
    /\ \E sid \in DOMAIN heap :
           /\ ~heap[sid].index.closed
           /\ Entries(heap[sid]) >= 1
           /\ heap[sid].store.size
                  > FileBytes(SubSeq(FileOf(disk, heap[sid].baseOffset).store
                                         \o heap[sid].store.buf,
                                     1, Entries(heap[sid])))

\* ------------------------------------------------- callers sharing one Log
\* The calls that begin with l.mu.Lock(); "Close" is the Close that Remove
\* makes on behalf of Reset, which takes no lock of its own.
Exclusive == {"Append", "Read", "LowestOffset", "HighestOffset", "Truncate",
              "Close"}

\* l.mu.Lock() at the head of a call: granted when nobody holds the lock.
Lock(t, op) ==
    /\ status = "open"
    /\ pc[t] = "idle"
    /\ nCalls < MaxCalls
    /\ mu = Unlocked
    /\ mu' = [mu EXCEPT !.writer = t]
    /\ pc' = [pc EXCEPT ![t] = op]
    /\ nCalls' = nCalls + 1
    /\ UNCHANGED <<Config, disk, heap, segments, activeSegment, status, ret,
                   acked, epoch, gen, nResets, cleanClose, nFaults>>

\* l.mu.RLock() at the head of Reader: granted when no writer holds the lock.
RLock(t) ==
    /\ status = "open"
    /\ pc[t] = "idle"
    /\ nCalls < MaxCalls
    /\ mu.writer = "none"
    /\ mu' = [mu EXCEPT !.readers = @ \cup {t}]
    /\ pc' = [pc EXCEPT ![t] = "Reader"]
    /\ nCalls' = nCalls + 1
    /\ UNCHANGED <<Config, disk, heap, segments, activeSegment, status, ret,
                   acked, epoch, gen, nResets, cleanClose, nFaults>>

\* The deferred l.mu.Unlock() of caller t, who goes on to position next.
Unlock(t, next) ==
    /\ mu' = [mu EXCEPT !.writer = "none"]
    /\ pc' = [pc EXCEPT ![t] = next]

\* The body of Log.Append, run by the holder of the lock.
AppendLocked(t, value, sigbus) ==
    /\ status = "open"
    /\ pc[t] = "Append"
    /\ value \in ValuesOf(Config)
    /\ sigbus => heap[activeSegment].index.closed
    /\ LET r == LogAppend(LogState, Config, value, FALSE, sigbus)
       IN /\ Install(r.log)
          /\ status' = IF r.crashed THEN "crashed" ELSE "open"
          /\ ret' = Ret("Append", value, r.off,
                        IF r.crashed THEN "sigbus" ELSE r.err, r.inner, NoRecord)
    /\ Unlock(t, "idle")
    /\ UNCHANGED <<Config, acked, epoch, gen, nResets, cleanClose, nCalls,
                   nFaults>>

\* The body of Log.Read.
ReadLocked(t, off) ==
    /\ status = "open"
    /\ pc[t] = "Read"
    /\ LET r == LogRead(LogState, off)
       IN /\ Install(r.log)
          /\ ret' = Ret("Read", off, 0, r.err, "nil",
                        IF r.err = "nil" THEN r.record ELSE NoRecord)
    /\ Unlock(t, "idle")
    /\ UNCHANGED <<Config, status, acked, epoch, gen, nResets, cleanClose,
                   nCalls, nFaults>>

\* The body of Log.Reader: one originReader per segment of the list, which
\* the caller reads after the lock is released.
ReaderLocked(t) ==
    /\ status = "open"
    /\ pc[t] = "Reader"
    /\ ret' = Ret("Reader", segments, 0, "nil", "nil", NoRecord)
    /\ mu' = [mu EXCEPT !.readers = @ \ {t}]
    /\ pc' = [pc EXCEPT ![t] = "idle"]
    /\ UNCHANGED <<Config, disk, heap, segments, activeSegment, status, acked,
                   epoch, gen, nResets, cleanClose, nCalls, nFaults>>

\* The bodies of Log.LowestOffset and Log.HighestOffset.
OffsetLocked(t) ==
    /\ status = "open"
    /\ pc[t] \in {"LowestOffset", "HighestOffset"}
    /\ LET r == IF pc[t] = "LowestOffset" THEN LogLowestOffset(LogState)
                ELSE LogHighestOffset(LogState)
       IN /\ ret' = Ret(pc[t], 0, r.off, r.err, "nil", NoRecord)
          /\ status' = IF r.err = "panic" THEN "crashed" ELSE "open"
    /\ Unlock(t, "idle")
    /\ UNCHANGED <<Config, disk, heap, segments, activeSegment, acked, epoch,
                   gen, nResets, cleanClose, nCalls, nFaults>>

\* The body of Log.Truncate.
TruncateLocked(t, lowest) ==
    /\ status = "open"
    /\ pc[t] = "Truncate"
    /\ LET r == LogTruncate(LogState, lowest)
       IN /\ Install(r.log)
          /\ ret' = Ret("Truncate", lowest, 0, r.err, "nil", NoRecord)
    /\ Unlock(t, "idle")
    /\ UNCHANGED <<Config, status, acked, epoch, gen, nResets, cleanClose,
                   nCalls, nFaults>>

\* Reset -> Remove -> Close: the body of Log.Close and its unlock.  When
\* Close fails, Remove returns its error and Reset returns nil; otherwise
\* Remove goes on to os.RemoveAll.
ResetClose(t) ==
    /\ status = "open"
    /\ pc[t] = "Close"
    /\ LET r == LogClose(LogState)
       IN /\ Install(r.log)
          /\ IF r.err # "nil"
             THEN /\ ret' = Ret("Reset", 0, 0, ResetFailed(r.err), "nil", NoRecord)
                  /\ Unlock(t, "idle")
             ELSE /\ ret' = ret
                  /\ Unlock(t, "RemoveAll")
    /\ UNCHANGED <<Config, status, acked, epoch, gen, nResets, cleanClose,
                   nCalls, nFaults>>

\* Reset -> Remove: os.RemoveAll(l.Dir), after Close has returned.
ResetRemoveAll(t) ==
    /\ status = "open"
    /\ pc[t] = "RemoveAll"
    /\ disk' = [exists |-> FALSE, files |-> <<>>]
    /\ pc' = [pc EXCEPT ![t] = "setup"]
    /\ UNCHANGED <<Config, heap, segments, activeSegment, status, ret, acked,
                   epoch, gen, nResets, cleanClose, nCalls, nFaults, mu>>

\* Reset -> setup, and Reset's return.
ResetSetup(t) ==
    /\ status = "open"
    /\ pc[t] = "setup"
    /\ LET r == setup(LogState, Config)
       IN /\ Install(r.log)
          /\ ret' = Ret("Reset", 0, 0, r.err, "nil", NoRecord)
    /\ pc' = [pc EXCEPT ![t] = "idle"]
    /\ UNCHANGED <<Config, status, acked, epoch, gen, nResets, cleanClose,
                   nCalls, nFaults, mu>>

NextConcurrent ==
    \/ \E t \in Callers, op \in Exclusive : Lock(t, op)
    \/ \E t \in Callers : RLock(t)
    \/ \E t \in Callers, v \in Values, sigbus \in BOOLEAN :
           AppendLocked(t, v, sigbus)
    \/ \E t \in Callers, off \in 0..MaxArg : ReadLocked(t, off)
    \/ \E t \in Callers : ReaderLocked(t)
    \/ \E t \in Callers : OffsetLocked(t)
    \/ \E t \in Callers, lowest \in 0..MaxArg : TruncateLocked(t, lowest)
    \/ \E t \in Callers : ResetClose(t)
    \/ \E t \in Callers : ResetRemoveAll(t)
    \/ \E t \in Callers : ResetSetup(t)

\* Two goroutines calling Append, Read, Reader, LowestOffset, HighestOffset,
\* Truncate and Reset on one Log.
SpecConcurrent == Init /\ [][NextConcurrent]_vars

\* The positions of a call that reads or rewrites l.segments or
\* l.activeSegment.
UsesList == {"Append", "Read", "Reader", "LowestOffset", "HighestOffset",
             "Truncate", "setup"}

====
